---- MODULE Spec2Model ----
(***************************************************************************)
(* Model of load_janes_data.py: the predicate-name normaliser, the         *)
(* JSON-LD flattening engine (traverse / parse_props) driven by main, and  *)
(* the batched connection writer write_connections.                        *)
(*                                                                         *)
(* Python values are represented as follows.                               *)
(*   - a str that the code scans or rewrites (attribute names, the last    *)
(*     path segment of an IRI) is a sequence of one-character strings;     *)
(*   - an IRI is the pair os.path.split yields: [head, tail], head being   *)
(*     the sequence of '/'-separated components before the last slash;     *)
(*   - a dict is a sequence of [k, v] items in insertion order;            *)
(*   - every JSON value carries a tag t: "str", "uri", "dict", "list";     *)
(*     None is the value tagged "none".                                    *)
(***************************************************************************)
EXTENDS Integers, Sequences, FiniteSets, TLC

VARIABLES
    \* ---- predicate-name normaliser (convert / unconvert) ----
    p,              \* the name handed to convert_predicate_name
    hyphenated,     \* its result
    compacted,      \* unconvert_predicate_name(hyphenated)
    npc,            \* "idle" | "start" | "hyphenated" | "compacted"
    \* ---- write_connections ----
    conn_objects,   \* parameter conn_objects
    batch_size_arg, \* parameter batch_size as passed by the caller
    batch_size,     \* local batch_size after line 254
    i, j,           \* locals i, j
    progress,       \* total reported to the tqdm progress bar
    added,          \* batches handed to geodesic.entanglement.add_connections
    wpc,            \* "idle" | "start" | "loop" | "done"
    \* ---- main and the flattening engine ----
    forest,         \* the loaded top-level records, in the order main visits them
    top_idx,        \* index of the next top-level record
    mpc,            \* "idle" | "traverse" | "registered" | "exited" | "fault"
    stack,          \* call stack of traverse / parse_props frames
    ret,            \* value returned by the call that returned last
    objects,        \* main's objects dict: name -> node
    connections,    \* main's connections list of (subject, predicate, object)
    registered,     \* calls of geodesic.entanglement.add_predicates
    saved,          \* nodes on which obj.save() was called
    \* ---- history (not program state) ----
    h_visits,       \* identified records in the order traverse was entered
    h_stores,       \* identified records in the order line 220 stored them
    h_returned      \* the last traverse call that returned: its subj and result

namesVars == <<p, hyphenated, compacted, npc>>
writeVars == <<conn_objects, batch_size_arg, batch_size, i, j, progress, added, wpc>>
mainVars == <<forest, top_idx, mpc, stack, ret, objects, connections, registered, saved>>
histVars == <<h_visits, h_stores, h_returned>>
vars == <<namesVars, writeVars, mainVars, histVars>>

----------------------------------------------------------------------------
\* Bounds of the model.
MaxLen == 3         \* longest name handed to the normaliser
MaxConn == 201      \* longest list handed to write_connections
MaxList == 2        \* longest list-valued attribute
MaxTop == 2         \* most top-level records in the forest

\* Program constants.
HardBatchSize == 100     \* line 254: batch_size = 100
DefaultBatchSize == 100  \* line 253: batch_size=100
MainBatchSize == 10      \* line 323: batch_size=10

----------------------------------------------------------------------------
\* Characters: Python's str.upper / str.lower on one ASCII character.
Lowers ==
    <<"a","b","c","d","e","f","g","h","i","j","k","l","m",
      "n","o","p","q","r","s","t","u","v","w","x","y","z">>
Uppers ==
    <<"A","B","C","D","E","F","G","H","I","J","K","L","M",
      "N","O","P","Q","R","S","T","U","V","W","X","Y","Z">>

upper(char) ==
    IF \E k \in 1..26 : Lowers[k] = char
    THEN Uppers[CHOOSE k \in 1..26 : Lowers[k] = char]
    ELSE char

lower(char) ==
    IF \E k \in 1..26 : Uppers[k] = char
    THEN Lowers[CHOOSE k \in 1..26 : Uppers[k] = char]
    ELSE char

\* str.lower on a whole string.
lower_str(s) == [k \in 1..Len(s) |-> lower(s[k])]

\* convert_predicate_name: the loop of lines 66-73, idx being enumerate's
\* index plus one, new the list built so far.
RECURSIVE convert_loop(_, _, _)
convert_loop(s, idx, new) ==
    IF idx > Len(s) THEN new
    ELSE LET char == s[idx] IN
         IF char = upper(char)
         THEN convert_loop(s, idx + 1,
                  Append(IF idx - 1 > 0 THEN Append(new, "-") ELSE new, lower(char)))
         ELSE convert_loop(s, idx + 1, Append(new, char))

convert_predicate_name(s) == convert_loop(s, 1, <<>>)

\* unconvert_predicate_name: the loop of lines 86-94.
RECURSIVE unconvert_loop(_, _, _, _)
unconvert_loop(s, idx, to_upper, new) ==
    IF idx > Len(s) THEN new
    ELSE LET char == s[idx] IN
         IF char = "-" THEN unconvert_loop(s, idx + 1, TRUE, new)
         ELSE IF to_upper
              THEN unconvert_loop(s, idx + 1, FALSE, Append(new, upper(char)))
              ELSE unconvert_loop(s, idx + 1, FALSE, Append(new, char))

\* A plausible slip: to_upper is never reset after it was used.
RECURSIVE unconvert_loop_sticky(_, _, _, _)
unconvert_loop_sticky(s, idx, to_upper, new) ==
    IF idx > Len(s) THEN new
    ELSE LET char == s[idx] IN
         IF char = "-" THEN unconvert_loop_sticky(s, idx + 1, TRUE, new)
         ELSE IF to_upper
              THEN unconvert_loop_sticky(s, idx + 1, TRUE, Append(new, upper(char)))
              ELSE unconvert_loop_sticky(s, idx + 1, FALSE, Append(new, char))

unconvert_sticky(s) == unconvert_loop_sticky(s, 1, FALSE, <<>>)

unconvert_predicate_name(s) == unconvert_loop(s, 1, FALSE, <<>>)

----------------------------------------------------------------------------
\* JSON values.
None == [t |-> "none"]
Str(s) == [t |-> "str", s |-> s]
Uri(head, tail) == [t |-> "uri", head |-> head, tail |-> tail]
Dict(items) == [t |-> "dict", d |-> items]
List(elems) == [t |-> "list", l |-> elems]
Item(k, v) == [k |-> k, v |-> v]

\* dict operations on a sequence of items: k in d, d[k], d.get(k, default),
\* d[k] = v (an existing key keeps its place, a new one goes last).
has_key(d, k) == \E n \in 1..Len(d) : d[n].k = k
get_item(d, k) == d[CHOOSE n \in 1..Len(d) : d[n].k = k].v
get_or(d, k, default) == IF has_key(d, k) THEN get_item(d, k) ELSE default
set_item(d, k, v) ==
    IF has_key(d, k)
    THEN [n \in 1..Len(d) |-> IF d[n].k = k THEN Item(k, v) ELSE d[n]]
    ELSE Append(d, Item(k, v))
keys(d) == {d[n].k : n \in 1..Len(d)}

\* Attribute names the code reads.
K_id == <<"i","d">>
K_type == <<"t","y","p","e">>
K_label == <<"l","a","b","e","l">>
K_locatedAt == <<"l","o","c","a","t","e","d","A","t">>
K_lat == <<"l","a","t">>
K_long == <<"l","o","n","g">>
K_locationCountry == <<"l","o","c","a","t","i","o","n","C","o","u","n","t","r","y">>
K_geoprecision == <<"g","e","o","p","r","e","c","i","s","i","o","n">>

\* hashlib.sha1(id.encode()).hexdigest()[:8]: the digest is kept symbolic, as
\* a value that differs for different ids (no collision among the ids used).
sha1_hex8(id) == <<"sha1", id.head, id.tail>>

\* convert_id: the name is kept as its three interpolated parts.
convert_id(id) ==
    LET iri == id.head
        uid == id.tail
        prefix == IF iri = <<>> THEN "" ELSE iri[Len(iri)]
    IN [prefix |-> prefix, uid |-> lower_str(uid), h |-> sha1_hex8(id)]

convert_type(id) == lower_str(convert_predicate_name(id.tail))

\* type_class_map (lines 28-46), in source order; the repeated geo/Country
\* key is kept, a dict literal letting the last one win.
JanesOntology(ns, tail) ==
    Uri(<<"https:", "", "data.janes.com", "ontologies", ns>>, tail)

type_class_map == <<
    [k |-> JanesOntology("equipment", <<"E","q","u","i","p","m","e","n","t">>), v |-> "Entity"],
    [k |-> JanesOntology("orbat", <<"M","i","l","i","t","a","r","y","G","r","o","u","p">>), v |-> "Entity"],
    [k |-> JanesOntology("geo", <<"C","o","u","n","t","r","y">>), v |-> "Entity"],
    [k |-> JanesOntology("equipment", <<"E","q","u","i","p","m","e","n","t","F","a","m","i","l","y">>), v |-> "Property"],
    [k |-> JanesOntology("organization", <<"O","r","g","a","n","i","z","a","t","i","o","n">>), v |-> "Entity"],
    [k |-> JanesOntology("classification", <<"C","l","a","s","s","i","f","i","c","a","t","i","o","n">>), v |-> "Property"],
    [k |-> JanesOntology("specifications", <<"C","o","n","d","i","t","i","o","n">>), v |-> "Property"],
    [k |-> JanesOntology("equipment", <<"E","q","u","i","p","m","e","n","t","V","a","r","i","a","n","t">>), v |-> "Property"],
    [k |-> JanesOntology("specifications", <<"S","p","e","c","i","f","i","c","a","t","i","o","n">>), v |-> "Property"],
    [k |-> JanesOntology("installation", <<"I","n","s","t","a","l","l","a","t","i","o","n">>), v |-> "Entity"],
    [k |-> JanesOntology("inventory", <<"I","n","S","e","r","v","i","c","e","I","n","v","e","n","t","o","r","y">>), v |-> "Entity"],
    [k |-> JanesOntology("agent", <<"O","r","g","a","n","i","z","a","t","i","o","n">>), v |-> "Entity"],
    [k |-> JanesOntology("inventory", <<"A","c","q","u","i","s","i","t","i","o","n","I","n","v","e","n","t","o","r","y">>), v |-> "Entity"],
    [k |-> JanesOntology("installation", <<"R","u","n","w","a","y">>), v |-> "Entity"],
    [k |-> JanesOntology("geo", <<"C","o","u","n","t","r","y">>), v |-> "Entity"],
    [k |-> JanesOntology("agent", <<"J","o","i","n","t","V","e","n","t","u","r","e">>), v |-> "Concept"],
    [k |-> JanesOntology("unit", <<"U","n","i","t">>), v |-> "Concept"]
>>

\* the last item with the key: what a dict literal with repeated keys holds.
type_class_get(typ, default) ==
    IF \E n \in 1..Len(type_class_map) : type_class_map[n].k = typ
    THEN type_class_map[CHOOSE n \in 1..Len(type_class_map) :
             /\ type_class_map[n].k = typ
             /\ \A m \in n + 1..Len(type_class_map) : type_class_map[m].k # typ].v
    ELSE default

\* extract_location_info: the three optional results, None when left out of
\* the returned dict (the callers read them with .get).
NoLocation == [geometry |-> None, location_country |-> None, geoprecision |-> None]

extract_location_info(obj) ==
    IF ~has_key(obj, K_locatedAt) THEN NoLocation
    ELSE LET la == get_item(obj, K_locatedAt).d
             lat == get_or(la, K_lat, None)
             lon == get_or(la, K_long, None)
             geom == IF lat # None /\ lon # None
                     THEN [t |-> "str", fmt |-> <<"POINT(", lon, " ", lat, ")">>]
                     ELSE None
         IN [geometry |-> geom,
             location_country |-> get_or(la, K_locationCountry, None),
             geoprecision |-> get_or(la, K_geoprecision, None)]

\* geodesic.entanglement.Object(**fields): fields is a mapping (a dict, or an
\* Object, which is one); the result is an Object of the same fields.
Object(fields) == [fields EXCEPT !.kind = "Object"]

----------------------------------------------------------------------------
\* Idle values of the parts a specification does not exercise.
NamesIdle ==
    /\ p = <<>> /\ hyphenated = <<>> /\ compacted = <<>> /\ npc = "idle"

WriteIdle ==
    /\ conn_objects = <<>> /\ batch_size_arg = 0 /\ batch_size = 0
    /\ i = 0 /\ j = 0 /\ progress = 0 /\ added = <<>> /\ wpc = "idle"

MainIdle ==
    /\ forest = <<>> /\ top_idx = 1 /\ mpc = "idle" /\ stack = <<>> /\ ret = None
    /\ objects = <<>> /\ connections = <<>> /\ registered = <<>> /\ saved = <<>>
    /\ h_visits = <<>> /\ h_stores = <<>> /\ h_returned = <<>>

----------------------------------------------------------------------------
\* The records main is run on.
K_partOf == <<"p","a","r","t","O","f">>
K_operatedBy == <<"o","p","e","r","a","t","e","d","B","y">>
K_name == <<"n","a","m","e">>

IdA == Uri(<<"https:", "", "x", "equipment", "Equipment">>, <<"1","2","3">>)
IdB == Uri(<<"https:", "", "x", "organization", "Organization">>, <<"9">>)
IdC == Uri(<<"https:", "", "x", "geo", "Country">>, <<"G","B">>)
TypeEquipment == Uri(<<"https:", "", "x", "ontologies", "equipment">>, <<"E","q","u","i","p","m","e","n","t">>)
TypeFamily == JanesOntology("equipment", <<"E","q","u","i","p","m","e","n","t","F","a","m","i","l","y">>)

LeafA == Dict(<<Item(K_id, IdA), Item(K_label, Str("Tank X"))>>)
LeafA2 == Dict(<<Item(K_label, Str("Tank X2")), Item(K_id, IdA), Item(K_type, TypeFamily)>>)
LeafB == Dict(<<Item(K_id, IdB), Item(K_label, Str("Org"))>>)
LeafC == Dict(<<Item(K_id, IdC)>>)
Inline == Dict(<<Item(K_name, Str("inline"))>>)
\* an identified record holding a reference of its own
MidB == Dict(<<Item(K_id, IdB), Item(K_label, Str("Org2")), Item(K_partOf, LeafA)>>)
\* an identified record with a location sub-structure
LeafLoc ==
    Dict(<<Item(K_id, IdC), Item(K_label, Str("Base")),
           Item(K_locatedAt, Dict(<<Item(K_lat, Str("10.5")), Item(K_long, Str("20.5")),
                                    Item(K_locationCountry, LeafB)>>))>>)

\* a record without id holding an identified record
InlineHolder == Dict(<<Item(K_name, Str("holder")), Item(K_operatedBy, LeafB)>>)

RECURSIVE SeqsUpTo(_, _)
SeqsUpTo(S, n) ==
    IF n = 0 THEN {<<>>}
    ELSE LET shorter == SeqsUpTo(S, n - 1) IN
         shorter \cup {Append(s, x) : s \in {t \in shorter : Len(t) = n - 1}, x \in S}

\* None stands for "attribute left out" in the three sets of options.
PartOfValues ==
    {None, Str("scalar"), LeafA, LeafB, LeafC, Inline, InlineHolder, MidB, LeafLoc}
        \cup {List(l) : l \in SeqsUpTo({LeafA, LeafA2, Inline}, MaxList)}

OperatedByValues == {None, LeafB}

LocatedAtValues ==
    { None,
      Dict(<<Item(K_lat, Str("10.5")), Item(K_long, Str("20.5"))>>),
      Dict(<<Item(K_lat, Str("10.5")), Item(K_long, Str("20.5")),
             Item(K_locationCountry, LeafC)>>),
      Dict(<<Item(K_locationCountry, LeafA2), Item(K_geoprecision, LeafB)>>),
      Dict(<<Item(K_locationCountry, Inline)>>),
      Dict(<<Item(K_long, Str("20.5")), Item(K_geoprecision, Inline)>>),
      Dict(<<Item(K_id, IdB), Item(K_lat, Str("10.5")), Item(K_long, Str("20.5"))>>) }

opt(k, v) == IF v = None THEN <<>> ELSE <<Item(k, v)>>

TopRecord(id, po, ob, la) ==
    Dict(<<Item(K_id, id)>>
         \o (IF id = IdA THEN <<Item(K_type, TypeEquipment)>> ELSE <<>>)
         \o <<Item(K_label, Str("Top"))>>
         \o opt(K_partOf, po) \o opt(K_operatedBy, ob) \o opt(K_locatedAt, la))

TopRecords ==
    {TopRecord(id, po, ob, la) :
        id \in {IdA, IdB}, po \in PartOfValues, ob \in OperatedByValues,
        la \in LocatedAtValues}
    \cup {Inline}

\* records that may follow the first one
Followers == {LeafA2, MidB}

Forests ==
    {<<>>} \cup {<<r>> \o t : r \in TopRecords, t \in SeqsUpTo(Followers, MaxTop - 1)}

----------------------------------------------------------------------------
\* The call stack.  A traverse frame holds the locals of lines 205-216, a
\* parse_props frame its arguments, the position in subj.items() (k), the
\* position in a list-valued attribute (e) and props.
top == stack[Len(stack)]
pop == SubSeq(stack, 1, Len(stack) - 1)
set_top(f) == [stack EXCEPT ![Len(stack)] = f]
call_traverse(caller, subj) ==
    Append(set_top(caller), [fn |-> "traverse", pc |-> "enter", subj |-> subj])

in_traverse(pc) == stack # <<>> /\ top.fn = "traverse" /\ top.pc = pc
in_parse_props(pc) == stack # <<>> /\ top.fn = "parse_props" /\ top.pc = pc

cur_item == top.subj.d[top.k]
sub_obj == IF cur_item.v.t = "list" THEN cur_item.v.l[top.e] ELSE cur_item.v

\* A plausible slip: the record without id is dropped, None returned.
TraverseInline_ReturnsNone ==
    /\ in_traverse("enter")
    /\ ~has_key(top.subj.d, K_id)
    /\ stack' = pop
    /\ ret' = None
    /\ h_returned' = <<[subj |-> top.subj, result |-> None]>>
    /\ UNCHANGED <<forest, top_idx, mpc, objects, connections, registered, saved,
                   h_visits, h_stores, namesVars, writeVars>>

\* traverse, lines 202-203: no id, the record is returned as it is.
TraverseInline ==
    /\ in_traverse("enter")
    /\ ~has_key(top.subj.d, K_id)
    /\ stack' = pop
    /\ ret' = top.subj
    /\ h_returned' = <<[subj |-> top.subj, result |-> top.subj]>>
    /\ UNCHANGED <<forest, top_idx, mpc, objects, connections, registered, saved,
                   h_visits, h_stores, namesVars, writeVars>>

\* traverse, lines 205-218: the locals, then the call of parse_props.
TraverseEnter ==
    /\ in_traverse("enter")
    /\ has_key(top.subj.d, K_id)
    /\ LET subj == top.subj.d
           xid == get_item(subj, K_id)
           name == convert_id(xid)
           typed == has_key(subj, K_type) /\ get_item(subj, K_type).t = "uri"
           typ == IF typed THEN get_item(subj, K_type) ELSE Str("")
           janesType == IF typed THEN convert_type(typ) ELSE <<"*">>
           frame == [fn |-> "traverse", pc |-> "props", subj |-> top.subj,
                     xid |-> xid, name |-> name, janesType |-> janesType,
                     loc_info |-> extract_location_info(subj),
                     object_class |-> type_class_get(typ, "Entity")]
       IN stack' = Append(set_top(frame),
                       [fn |-> "parse_props", pc |-> "item", name |-> name,
                        subj |-> top.subj, k |-> 1, e |-> 1, props |-> <<>>])
    /\ h_visits' = Append(h_visits, top.subj)
    /\ UNCHANGED <<forest, top_idx, mpc, ret, objects, connections, registered, saved,
                   h_stores, h_returned, namesVars, writeVars>>

\* parse_props, lines 158-159
PropsSkipId ==
    /\ in_parse_props("item") /\ top.k <= Len(top.subj.d)
    /\ cur_item.k = K_id
    /\ stack' = set_top([top EXCEPT !.k = @ + 1])
    /\ UNCHANGED <<forest, top_idx, mpc, ret, objects, connections, registered, saved,
                   histVars, namesVars, writeVars>>

\* parse_props, lines 161-164
PropsScalar ==
    /\ in_parse_props("item") /\ top.k <= Len(top.subj.d)
    /\ cur_item.k # K_id
    /\ cur_item.v.t \notin {"dict", "list"}
    /\ stack' = set_top([top EXCEPT !.k = @ + 1,
                                    !.props = set_item(@, cur_item.k, cur_item.v)])
    /\ UNCHANGED <<forest, top_idx, mpc, ret, objects, connections, registered, saved,
                   histVars, namesVars, writeVars>>

\* parse_props, lines 166-168: the next element of a list is traversed
PropsCallElement ==
    /\ in_parse_props("item") /\ top.k <= Len(top.subj.d)
    /\ cur_item.k # K_id
    /\ cur_item.v.t = "list" /\ top.e <= Len(cur_item.v.l)
    /\ stack' = call_traverse([top EXCEPT !.pc = "ret"], sub_obj)
    /\ UNCHANGED <<forest, top_idx, mpc, ret, objects, connections, registered, saved,
                   histVars, namesVars, writeVars>>

\* parse_props, line 167: the list is exhausted
PropsListDone ==
    /\ in_parse_props("item") /\ top.k <= Len(top.subj.d)
    /\ cur_item.k # K_id
    /\ cur_item.v.t = "list" /\ top.e > Len(cur_item.v.l)
    /\ stack' = set_top([top EXCEPT !.k = @ + 1, !.e = 1])
    /\ UNCHANGED <<forest, top_idx, mpc, ret, objects, connections, registered, saved,
                   histVars, namesVars, writeVars>>

\* parse_props, lines 176-177: a dict-valued attribute is traversed
PropsCallDict ==
    /\ in_parse_props("item") /\ top.k <= Len(top.subj.d)
    /\ cur_item.k # K_id
    /\ cur_item.v.t = "dict"
    /\ stack' = call_traverse([top EXCEPT !.pc = "ret"], sub_obj)
    /\ UNCHANGED <<forest, top_idx, mpc, ret, objects, connections, registered, saved,
                   histVars, namesVars, writeVars>>

\* A plausible slip: the attribute name is used as the predicate as it is.
connection_of_raw(name, predicate_or_key, obj) ==
    <<name, predicate_or_key, convert_id(get_item(obj.d, K_id))>>

\* the triple of lines 173-175 and 181-183
connection_of(name, predicate_or_key, obj) ==
    <<name, convert_predicate_name(predicate_or_key), convert_id(get_item(obj.d, K_id))>>

\* parse_props, lines 169-175 and 178-183: traverse returned prop
PropsAfterTraverse ==
    /\ in_parse_props("ret")
    /\ LET prop == ret
           advanced == IF cur_item.v.t = "list"
                       THEN [top EXCEPT !.pc = "item", !.e = @ + 1]
                       ELSE [top EXCEPT !.pc = "item", !.k = @ + 1]
       IN IF prop # None
          THEN /\ stack' = set_top([advanced EXCEPT !.props = set_item(@, cur_item.k, prop)])
               /\ connections' = connections
          ELSE /\ stack' = set_top(advanced)
               /\ connections' = Append(connections,
                                     connection_of(top.name, cur_item.k, sub_obj))
    /\ UNCHANGED <<forest, top_idx, mpc, ret, objects, registered, saved,
                   histVars, namesVars, writeVars>>

\* parse_props, line 185
PropsReturn ==
    /\ in_parse_props("item") /\ top.k > Len(top.subj.d)
    /\ stack' = pop
    /\ ret' = Dict(top.props)
    /\ UNCHANGED <<forest, top_idx, mpc, objects, connections, registered, saved,
                   histVars, namesVars, writeVars>>

\* the dict of lines 220-229 with the geometry of lines 231-233 (None: no key)
node_of(frame, props) ==
    [kind |-> "dict",
     alias |-> get_or(frame.subj.d, K_label, [t |-> "name", n |-> frame.name]),
     domain |-> "military",
     object_class |-> frame.object_class,
     name |-> frame.name,
     xid |-> frame.xid,
     type |-> frame.janesType,
     item |-> props,
     project |-> "project.uid",
     geometry |-> frame.loc_info.geometry]

\* A plausible slip: an entry already in objects is kept (setdefault).
TraverseStore_KeepFirst ==
    /\ in_traverse("props")
    /\ objects' = IF has_key(objects, top.name) THEN objects
                  ELSE set_item(objects, top.name, node_of(top, ret.d))
    /\ stack' = set_top([top EXCEPT !.pc = "lc"])
    /\ h_stores' = Append(h_stores, [subj |-> top.subj, node |-> node_of(top, ret.d)])
    /\ UNCHANGED <<forest, top_idx, mpc, ret, connections, registered, saved,
                   h_visits, h_returned, namesVars, writeVars>>

\* traverse, lines 218-233: parse_props returned, the node is stored
TraverseStore ==
    /\ in_traverse("props")
    /\ objects' = set_item(objects, top.name, node_of(top, ret.d))
    /\ stack' = set_top([top EXCEPT !.pc = "lc"])
    /\ h_stores' = Append(h_stores, [subj |-> top.subj, node |-> node_of(top, ret.d)])
    /\ UNCHANGED <<forest, top_idx, mpc, ret, connections, registered, saved,
                   h_visits, h_returned, namesVars, writeVars>>

\* A plausible slip: the location country is not traversed, only linked.
TraverseLocationCountry_NoCall ==
    /\ in_traverse("lc")
    /\ LET lc == top.loc_info.location_country
       IN IF lc # None
          THEN stack' = set_top([top EXCEPT !.pc = "lc_ret"])
          ELSE stack' = set_top([top EXCEPT !.pc = "gp"])
    /\ UNCHANGED <<forest, top_idx, mpc, ret, objects, connections, registered, saved,
                   histVars, namesVars, writeVars>>

\* traverse, lines 235-237
TraverseLocationCountry ==
    /\ in_traverse("lc")
    /\ LET lc == top.loc_info.location_country
       IN IF lc # None
          THEN stack' = call_traverse([top EXCEPT !.pc = "lc_ret"], lc)
          ELSE stack' = set_top([top EXCEPT !.pc = "gp"])
    /\ UNCHANGED <<forest, top_idx, mpc, ret, objects, connections, registered, saved,
                   histVars, namesVars, writeVars>>

\* traverse, lines 238-240
TraverseLocationCountryEdge ==
    /\ in_traverse("lc_ret")
    /\ LET lc == top.loc_info.location_country
           name == convert_id(get_item(top.subj.d, K_id))
       IN /\ has_key(lc.d, K_id)
          /\ connections' = Append(connections,
                 <<name, <<"l","o","c","a","t","i","o","n","-","c","o","u","n","t","r","y">>, convert_id(get_item(lc.d, K_id))>>)
          /\ stack' = set_top([top EXCEPT !.pc = "gp", !.name = name])
    /\ UNCHANGED <<forest, top_idx, mpc, ret, objects, registered, saved,
                   histVars, namesVars, writeVars>>

\* traverse, lines 242-244
TraverseGeoprecision ==
    /\ in_traverse("gp")
    /\ LET gp == top.loc_info.geoprecision
       IN IF gp # None
          THEN stack' = call_traverse([top EXCEPT !.pc = "gp_ret"], gp)
          ELSE stack' = set_top([top EXCEPT !.pc = "wrap"])
    /\ UNCHANGED <<forest, top_idx, mpc, ret, objects, connections, registered, saved,
                   histVars, namesVars, writeVars>>

\* traverse, lines 245-247
TraverseGeoprecisionEdge ==
    /\ in_traverse("gp_ret")
    /\ LET gp == top.loc_info.geoprecision
           name == convert_id(get_item(top.subj.d, K_id))
       IN /\ has_key(gp.d, K_id)
          /\ connections' = Append(connections,
                 <<name, <<"g","e","o","p","r","e","c","i","s","i","o","n">>, convert_id(get_item(gp.d, K_id))>>)
          /\ stack' = set_top([top EXCEPT !.pc = "wrap", !.name = name])
    /\ UNCHANGED <<forest, top_idx, mpc, ret, objects, registered, saved,
                   histVars, namesVars, writeVars>>

\* traverse, lines 239 and 246: lc['id'] or gp['id'] of a record without id
\* raises KeyError, which nothing catches: the run of main ends.
TraverseKeyError ==
    /\ \/ in_traverse("lc_ret") /\ ~has_key(top.loc_info.location_country.d, K_id)
       \/ in_traverse("gp_ret") /\ ~has_key(top.loc_info.geoprecision.d, K_id)
    /\ stack' = <<>>
    /\ mpc' = "fault"
    /\ UNCHANGED <<forest, top_idx, ret, objects, connections, registered, saved,
                   histVars, namesVars, writeVars>>

\* traverse, lines 249-250 and the implicit return None
TraverseWrap ==
    /\ in_traverse("wrap")
    /\ objects' = set_item(objects, top.name, Object(get_item(objects, top.name)))
    /\ stack' = pop
    /\ ret' = None
    /\ h_returned' = <<[subj |-> top.subj, result |-> None]>>
    /\ UNCHANGED <<forest, top_idx, mpc, connections, registered, saved,
                   h_visits, h_stores, namesVars, writeVars>>

----------------------------------------------------------------------------
\* main.  The six loops of lines 284-295 run the same body over the six
\* loaded collections one after the other: forest is their concatenation.
InitMain ==
    /\ forest \in Forests
    /\ top_idx = 1 /\ mpc = "traverse" /\ stack = <<>> /\ ret = None
    /\ objects = <<>> /\ connections = <<>> /\ registered = <<>> /\ saved = <<>>
    /\ h_visits = <<>> /\ h_stores = <<>> /\ h_returned = <<>>
    /\ NamesIdle /\ WriteIdle

\* lines 284-295: traverse(x, objects, connections)
MainTraverse ==
    /\ mpc = "traverse" /\ stack = <<>> /\ top_idx <= Len(forest)
    /\ stack' = <<[fn |-> "traverse", pc |-> "enter", subj |-> forest[top_idx]]>>
    /\ top_idx' = top_idx + 1
    /\ UNCHANGED <<forest, mpc, ret, objects, connections, registered, saved,
                   histVars, namesVars, writeVars>>

\* A plausible slip: the predicates are collected after the self-loop filter.
unique_predicates_of_kept ==
    {connections[n][2] : n \in {m \in 1..Len(connections) : connections[m][1] # connections[m][3]}}

\* line 297: set(p for _, p, _ in connections)
unique_predicates == {connections[n][2] : n \in 1..Len(connections)}

\* list(s): the elements of a set in some order
orders(S) ==
    {f \in [1..Cardinality(S) -> S] : \A a, b \in 1..Cardinality(S) : a # b => f[a] # f[b]}

\* lines 297-304: geodesic.entanglement.add_predicates
MainPredicates ==
    /\ mpc = "traverse" /\ stack = <<>> /\ top_idx > Len(forest)
    /\ \E listed \in orders(unique_predicates) :
           registered' = Append(registered,
               [trait |-> "JanesOntology",
                predicates |-> [n \in 1..Len(listed) |-> [name |-> listed[n]]]])
    /\ mpc' = "registered"
    /\ UNCHANGED <<forest, top_idx, stack, ret, objects, connections, saved,
                   histVars, namesVars, writeVars>>

\* line 305: exit().  Lines 306-323 (obj.save(), the Connection list, the call
\* of write_connections) follow it and are never run.
MainExit ==
    /\ mpc = "registered"
    /\ mpc' = "exited"
    /\ UNCHANGED <<forest, top_idx, stack, ret, objects, connections, registered, saved,
                   histVars, namesVars, writeVars>>

\* A plausible slip: the filter of line 319 is left out.
keep_all(c) == TRUE

\* lines 313-320: the list main would hand to write_connections
is_not_loop(c) == c[1] # c[3]
main_conn_objects ==
    LET kept == SelectSeq(connections, is_not_loop)
    IN [n \in 1..Len(kept) |->
           [subject |-> get_item(objects, kept[n][1]),
            predicate |-> kept[n][2],
            object |-> get_item(objects, kept[n][3])]]

Next ==
    \/ MainTraverse \/ MainPredicates \/ MainExit
    \/ TraverseInline \/ TraverseEnter \/ TraverseStore
    \/ TraverseLocationCountry \/ TraverseLocationCountryEdge
    \/ TraverseGeoprecision \/ TraverseGeoprecisionEdge
    \/ TraverseKeyError \/ TraverseWrap
    \/ PropsSkipId \/ PropsScalar \/ PropsCallElement \/ PropsListDone
    \/ PropsCallDict \/ PropsAfterTraverse \/ PropsReturn

Spec == InitMain /\ [][Next]_vars

----------------------------------------------------------------------------
\* The normaliser applied to a name, then its inverse to the result.
Alphabet == {"a", "z", "A", "Z", "7", "-"}

RECURSIVE StringsUpTo(_)
StringsUpTo(n) ==
    IF n = 0 THEN {<<>>}
    ELSE LET shorter == StringsUpTo(n - 1) IN
         shorter \cup {Append(s, c) : s \in {t \in shorter : Len(t) = n - 1}, c \in Alphabet}

InitNames ==
    /\ p \in StringsUpTo(MaxLen)
    /\ hyphenated = <<>> /\ compacted = <<>> /\ npc = "start"
    /\ WriteIdle /\ MainIdle

Hyphenate ==
    /\ npc = "start"
    /\ hyphenated' = convert_predicate_name(p)
    /\ npc' = "hyphenated"
    /\ UNCHANGED <<p, compacted, writeVars, mainVars, histVars>>

Compact ==
    /\ npc = "hyphenated"
    /\ compacted' = unconvert_predicate_name(hyphenated)
    /\ npc' = "compacted"
    /\ UNCHANGED <<p, hyphenated, writeVars, mainVars, histVars>>

NextNames == Hyphenate \/ Compact

SpecNames == InitNames /\ [][NextNames]_vars

----------------------------------------------------------------------------
\* Claims about the normaliser (checked under SpecNames).
IsUpperLetter(c) == \E k \in 1..26 : Uppers[k] = c
IsLowerLetter(c) == \E k \in 1..26 : Lowers[k] = c
LettersOnly(s) == \A k \in 1..Len(s) : IsUpperLetter(s[k]) \/ IsLowerLetter(s[k])
CountIn(s, P(_)) == Cardinality({k \in 1..Len(s) : P(s[k])})
IsHyphen(c) == c = "-"
UppersAfterFirst(s) == Cardinality({k \in 2..Len(s) : IsUpperLetter(s[k])})

\* The hyphenated form the claim describes: a hyphen only before an uppercase
\* letter that is not the first character, that letter lowercased, every
\* other character copied.
RECURSIVE HyphenBeforeUppersOnly(_, _)
HyphenBeforeUppersOnly(s, idx) ==
    IF idx > Len(s) THEN <<>>
    ELSE (IF IsUpperLetter(s[idx])
          THEN (IF idx > 1 THEN <<"-">> ELSE <<>>) \o <<lower(s[idx])>>
          ELSE <<s[idx]>>) \o HyphenBeforeUppersOnly(s, idx + 1)

\* C8 (as claimed): for every name of ASCII letters only, including one with a
\* leading uppercase letter, unconvert_predicate_name(convert_predicate_name(s))
\* is s again.
C8_RoundTripAllLetters ==
    (npc = "compacted" /\ LettersOnly(p)) => compacted = p

\* C8 (amended): the round trip returns s for every name of ASCII letters only
\* whose first character is not an uppercase letter (the empty name included).
C8_RoundTripLowerFirst ==
    (npc = "compacted" /\ LettersOnly(p) /\ (p = <<>> \/ IsLowerLetter(p[1])))
        => compacted = p

\* A name with two consecutive uppercase letters after a lowercase first
\* letter has gone through both conversions.
C8_Witness ==
    /\ npc = "compacted" /\ Len(p) = 3 /\ LettersOnly(p)
    /\ IsLowerLetter(p[1]) /\ IsUpperLetter(p[2]) /\ IsUpperLetter(p[3])
    /\ Len(hyphenated) = 5 /\ compacted = p

\* C9 (as claimed): convert_predicate_name inserts a hyphen only before an
\* uppercase letter that is not the first character and copies every other
\* character, so the hyphens added number the uppercase letters at index > 0.
C9_HyphenOnlyBeforeUppers ==
    npc # "start" =>
        /\ hyphenated = HyphenBeforeUppersOnly(p, 1)
        /\ CountIn(hyphenated, IsHyphen) - CountIn(p, IsHyphen) = UppersAfterFirst(p)

----------------------------------------------------------------------------
\* write_connections(conn_objects, batch_size).
min(a, b) == IF a < b THEN a ELSE b

\* conn_objects[i:j] for 0 <= i <= j <= len.
slice(s, lo, hi) == SubSeq(s, lo + 1, hi)

InitWrite ==
    /\ conn_objects \in {[k \in 1..n |-> k] : n \in 0..MaxConn}
    /\ batch_size_arg \in {MainBatchSize, DefaultBatchSize}
    /\ batch_size = batch_size_arg
    /\ i = 0 /\ j = 0 /\ progress = 0 /\ added = <<>> /\ wpc = "start"
    /\ NamesIdle /\ MainIdle

\* lines 254-258
WriteBegin ==
    /\ wpc = "start"
    /\ batch_size' = HardBatchSize
    /\ i' = 0
    /\ j' = min(0 + HardBatchSize, Len(conn_objects))
    /\ wpc' = "loop"
    /\ UNCHANGED <<conn_objects, batch_size_arg, progress, added, namesVars, mainVars, histVars>>

\* lines 259-265: one iteration of the loop
WriteBatch ==
    /\ wpc = "loop"
    /\ j <= Len(conn_objects) /\ i # j
    /\ added' = Append(added, slice(conn_objects, i, j))
    /\ i' = j
    /\ j' = min(j + batch_size, Len(conn_objects))
    /\ progress' = progress + (j' - i')
    /\ UNCHANGED <<conn_objects, batch_size_arg, batch_size, wpc, namesVars, mainVars, histVars>>

\* line 259 false, line 266
WriteEnd ==
    /\ wpc = "loop"
    /\ ~(j <= Len(conn_objects) /\ i # j)
    /\ wpc' = "done"
    /\ UNCHANGED <<conn_objects, batch_size_arg, batch_size, i, j, progress, added, namesVars, mainVars, histVars>>

NextWrite == WriteBegin \/ WriteBatch \/ WriteEnd

SpecWrite == InitWrite /\ [][NextWrite]_vars

----------------------------------------------------------------------------
\* Claims about write_connections (checked under SpecWrite).
RECURSIVE Concat(_)
Concat(ss) == IF ss = <<>> THEN <<>> ELSE Head(ss) \o Concat(Tail(ss))

\* C7 (as claimed): the batches handed to add_connections are consecutive,
\* non-empty, in list order, their concatenation is the whole list, and every
\* batch has exactly the batch size the caller passed, except a possibly
\* shorter last one; an empty list causes no call.
C7_BatchesOfCallerSize ==
    wpc = "done" =>
        /\ Concat(added) = conn_objects
        /\ \A k \in 1..Len(added) : Len(added[k]) > 0
        /\ \A k \in 1..Len(added) - 1 : Len(added[k]) = batch_size_arg
        /\ \A k \in 1..Len(added) : Len(added[k]) <= batch_size_arg
        /\ (conn_objects = <<>> => added = <<>>)

----------------------------------------------------------------------------
\* Claims about the flattening engine and main (checked under Spec).
has_id(v) == v.t = "dict" /\ has_key(v.d, K_id)
identity(v) == convert_id(get_item(v.d, K_id))
IsPrefix(a, b) == Len(a) <= Len(b) /\ SubSeq(b, 1, Len(a)) = a
PassDone == mpc \in {"traverse", "registered", "exited"} /\ stack = <<>> /\ top_idx > Len(forest)
Range(s) == {s[n] : n \in 1..Len(s)}

\* the identified records that are an attribute value of r or an element of
\* a list-valued attribute of r, as positions <<item, element>>
DirectRefs(r) ==
    {<<k, 0>> : k \in {n \in 1..Len(r.d) : r.d[n].k # K_id /\ has_id(r.d[n].v)}}
    \cup UNION {{<<k, e>> : e \in {m \in 1..Len(r.d[k].v.l) : has_id(r.d[k].v.l[m])}} :
                   k \in {n \in 1..Len(r.d) : r.d[n].k # K_id /\ r.d[n].v.t = "list"}}
RefAt(r, pos) == IF pos[2] = 0 THEN r.d[pos[1]].v ELSE r.d[pos[1]].v.l[pos[2]]
OneReference(r) ==
    has_id(r) /\ ~has_key(r.d, K_locatedAt) /\ Cardinality(DirectRefs(r)) = 1
TheReference(r) == RefAt(r, CHOOSE pos \in DirectRefs(r) : TRUE)

\* C1, first part: when parse_props, flattening record R, has had the value E
\* of attribute a (or an element E of its list) traversed, it appends exactly
\* the one edge (identity(R), convert_predicate_name(a), identity(E)) if E is an
\* identified record, which then has an entry in objects, and no edge if E is
\* an inline record; a scalar attribute and id append none.
C1_Step ==
    /\ in_parse_props("ret") =>
           LET R == top.subj
               a == cur_item.k
               E == sub_obj
           IN IF has_id(E)
              THEN /\ connections' = Append(connections,
                          <<identity(R), convert_predicate_name(a), identity(E)>>)
                   /\ has_key(objects, identity(E))
              ELSE connections' = connections
    /\ in_parse_props("item") => connections' = connections

\* C1 (as claimed), the consequence: a single record with one identified
\* reference and no location sub-structure yields two nodes and one edge.
C1_OneReferenceTwoNodes ==
    (PassDone /\ Len(forest) = 1 /\ OneReference(forest[1]))
        => Len(objects) = 2 /\ Len(connections) = 1

\* C1 (amended), the consequence: it yields two nodes and one edge when the
\* referenced record has another id than the record and holds no identified
\* reference and no location sub-structure of its own.
C1_OneLeafReferenceTwoNodes ==
    (/\ PassDone /\ Len(forest) = 1 /\ OneReference(forest[1])
     /\ identity(TheReference(forest[1])) # identity(forest[1])
     /\ DirectRefs(TheReference(forest[1])) = {}
     /\ ~has_key(TheReference(forest[1]).d, K_locatedAt))
        => /\ keys(objects) = {identity(forest[1]), identity(TheReference(forest[1]))}
           /\ Len(objects) = 2
           /\ Len(connections) = 1
           /\ connections[1][1] = identity(forest[1])
           /\ connections[1][3] = identity(TheReference(forest[1]))

\* C1 (amended): the first part at every step, and the amended consequence.
C1_EdgePerReference == [][C1_Step]_vars /\ []C1_OneLeafReferenceTwoNodes

\* The record of the spec's example (Equipment/123 with partOf
\* Organization/9) has been flattened: two nodes, the edge part-of.
C1_Witness ==
    /\ PassDone /\ Len(forest) = 1 /\ OneReference(forest[1])
    /\ identity(forest[1]) = convert_id(IdA)
    /\ connections = <<<<convert_id(IdA), <<"p","a","r","t","-","o","f">>, convert_id(IdB)>>>>
    /\ Len(objects) = 2

LastWith(s, P(_)) == s[CHOOSE n \in 1..Len(s) : P(s[n]) /\ \A m \in n + 1..Len(s) : ~P(s[m])]
OneNodePerIdentity ==
    /\ keys(objects) = {identity(r) : r \in Range(h_visits)}
    /\ Cardinality(keys(objects)) = Len(objects)

\* C3 (as claimed): after the pass objects holds one node per identity met,
\* and for each identity the node built from the record visited last.
C3_LastVisitedWins ==
    (PassDone /\ mpc # "fault") =>
        /\ OneNodePerIdentity
        /\ \A n \in keys(objects) :
               LET same(r) == identity(r) = n
                   later == LastWith(h_visits, same)
                   built(s) == s.subj = later
               IN get_item(objects, n) = Object(LastWith(h_stores, built).node)

\* C3 (amended): after the pass objects holds one node per identity met, and
\* for each identity the node built from the record stored last at line 220:
\* the record visited later, except that a record wins over a record of the
\* same id nested among its own attributes.
C3_LastStoredWins ==
    (PassDone /\ mpc # "fault") =>
        /\ OneNodePerIdentity
        /\ \A n \in keys(objects) :
               LET same(s) == identity(s.subj) = n
               IN get_item(objects, n) = Object(LastWith(h_stores, same).node)

\* Some identity was met in two different records, the one visited later
\* nested among the attributes of the other, and the pass is over.
C3_Witness ==
    /\ PassDone /\ mpc = "exited" /\ Len(objects) >= 2
    /\ \E n \in keys(objects) :
           LET sameV(r) == identity(r) = n
               sameS(s) == identity(s.subj) = n
           IN /\ LastWith(h_visits, sameV) # LastWith(h_stores, sameS).subj
              /\ get_item(objects, n) = Object(LastWith(h_stores, sameS).node)

\* C4 (as claimed): when main ends after a completed pass, every node of
\* objects was saved and every connection that is no self-loop was handed to
\* add_connections.
C4_AllSavedAtExit ==
    mpc = "exited" =>
        /\ \A n \in 1..Len(objects) : objects[n].v \in Range(saved)
        /\ Range(main_conn_objects) \subseteq Range(Concat(added))

\* C5: no step removes an edge from connections, a self-loop included; no
\* batch handed to add_connections, and not the list lines 313-320 build from
\* a completed pass, holds an edge whose subject and object are the same.
C5_NoStepRemoves == IsPrefix(connections, connections')
C5_NoLoopHanded ==
    /\ \A b \in Range(added) : \A c \in Range(b) : c.subject.name # c.object.name
    /\ PassDone => \A c \in Range(main_conn_objects) : c.subject.name # c.object.name
C5_LoopsStayUntilAssembler == [][C5_NoStepRemoves]_vars /\ []C5_NoLoopHanded

\* main has ended with a self-loop still in connections, beside an edge that
\* is none.
C5_Witness ==
    /\ mpc = "exited"
    /\ \E n \in 1..Len(connections) : connections[n][1] = connections[n][3]
    /\ Len(main_conn_objects) > 0

\* C6: nothing is saved before add_predicates was called, and it is called
\* with each predicate label of connections exactly once, labels of
\* self-loops included.
C6_PredicatesRegisteredFirst ==
    /\ (saved # <<>> \/ added # <<>>) => registered # <<>>
    /\ mpc \in {"registered", "exited"} => Len(registered) = 1
    /\ registered # <<>> =>
           LET names == [n \in 1..Len(registered[1].predicates) |->
                            registered[1].predicates[n].name]
           IN /\ Range(names) = {c[2] : c \in Range(connections)}
              /\ Cardinality(Range(names)) = Len(names)

\* add_predicates was called with two labels, one of them carried by
\* self-loops only and one carried by two edges.
C6_Witness ==
    /\ registered # <<>> /\ Len(registered[1].predicates) = 2
    /\ \E l \in {c[2] : c \in Range(connections)} :
           \A c \in Range(connections) : c[2] = l => c[1] = c[3]
    /\ \E a, b \in 1..Len(connections) : a # b /\ connections[a][2] = connections[b][2]

\* C10: whenever no call is in progress and no fault ended the run, both ends
\* of every edge of connections are keys of objects.
C10_EndsAreNodes ==
    (stack = <<>> /\ mpc # "fault") =>
        \A c \in Range(connections) : has_key(objects, c[1]) /\ has_key(objects, c[3])

\* The first of two top-level calls has returned, leaving edges from
\* attributes and from the location sub-structure.
C10_Witness ==
    /\ stack = <<>> /\ mpc = "traverse" /\ top_idx = 2 /\ Len(forest) = 2
    /\ \E c \in Range(connections) : c[2] = <<"l","o","c","a","t","i","o","n","-","c","o","u","n","t","r","y">>
    /\ \E c \in Range(connections) : c[2] = <<"p","a","r","t","-","o","f">>

====
